---- MODULE Spec2Model ----
(***************************************************************************)
(* The Spotify token lifecycle of tubify-core/src/backend/spotify_auth.py: *)
(* the spotify_credentials table, the module-level OAuth helper and its    *)
(* MemoryCacheHandler, and the request handlers connect, callback, status, *)
(* disconnect, playlists and recently-played.  Every "await" of a handler  *)
(* is a point where another request may run, so a handler is one action    *)
(* per stretch of code between two awaits.                                 *)
(***************************************************************************)
EXTENDS Integers, Sequences, FiniteSets, TLC

VARIABLES
    rows,       \* the spotify_credentials table: a set of row records
    next_id,    \* the serial sequence behind spotify_credentials.id
    cache,      \* sp_oauth.cache_handler.token_info (module level, line 61)
    now,        \* the wall clock, in units of the helper's 60 s expiry margin
    playlists_tbl, \* the playlists table: rows (user_id, spotify_playlist_id)
    req,        \* the requests in flight: locals and position of each handler
    last        \* the response being sent, NoResp once it has left

vars == <<rows, next_id, cache, now, playlists_tbl, req, last>>

----------------------------------------------------------------------------
(* Bounds of the model *)

MaxTime == 1          \* the clock stops ticking here; a token lives one unit

\* The finite domains the environment's values are drawn from
Lifetimes == {1}                      \* expires_in of a token answer
SerialIds == {1, 2}                   \* values the id sequence hands out
SyncCounts == {1}                     \* liked_songs_count the sync job writes

Users == {1, 2}                       \* ids present in the users table
Reqs == {1, 2}                        \* request slots of the event loop
Grants == {1, 2}                      \* token strings the provider issues
Errors == {"none", "", "access_denied"} \* `error`: absent, empty, or a message

SyncStatuses == {"not_started", "in_progress", "completed", "needs_update", "failed"}

----------------------------------------------------------------------------
(* Python values *)

Digits == <<"0", "1", "2", "3", "4", "5", "6", "7", "8", "9">>

IsDigit(c) == \E i \in 1..10 : Digits[i] = c

DigitVal(c) == (CHOOSE i \in 1..10 : Digits[i] = c) - 1

\* str(n) of an int
RECURSIVE Str(_)
Str(n) ==
    IF n < 0 THEN <<"-">> \o Str(0 - n)
    ELSE IF n < 10 THEN <<Digits[n + 1]>>
    ELSE Str(n \div 10) \o <<Digits[(n % 10) + 1]>>

\* str.strip(): whitespace removed at both ends
RECURSIVE Strip(_)
Strip(s) ==
    IF s = <<>> THEN s
    ELSE IF Head(s) = " " THEN Strip(Tail(s))
    ELSE IF s[Len(s)] = " " THEN Strip(SubSeq(s, 1, Len(s) - 1))
    ELSE s

RECURSIVE DigitsVal(_)
DigitsVal(s) ==
    IF s = <<>> THEN 0
    ELSE 10 * DigitsVal(SubSeq(s, 1, Len(s) - 1)) + DigitVal(s[Len(s)])

\* a parse that takes whatever digits there are and never raises
IntParseLenient(s) ==
    [ok |-> TRUE, val |-> DigitsVal(SelectSeq(s, IsDigit))]

\* int(s): surrounding whitespace, one optional sign, then decimal digits;
\* anything else raises ValueError (ok = FALSE)
IntParse(s) ==
    LET t == Strip(s)
        neg == t # <<>> /\ Head(t) = "-"
        d == IF neg THEN Tail(t) ELSE t
    IN  IF d # <<>> /\ \A i \in 1..Len(d) : IsDigit(d[i])
        THEN [ok |-> TRUE, val |-> IF neg THEN 0 - DigitsVal(d) ELSE DigitsVal(d)]
        ELSE [ok |-> FALSE, val |-> 0]

\* bool(x) of the value database.execute returns for "SELECT id ...":
\* <<>> stands for None, <<id>> for the first column of the first row
Truthy(result) == result # <<>> /\ result[1] # 0

\* datetime.fromtimestamp(ts): the naive local wall-clock reading of ts
LocalUtcOffset == 1
fromtimestamp(ts) == [wall |-> ts + LocalUtcOffset, tz |-> "naive"]

\* the new expiry without the lifetime added
utc_now_only(t, s) == [wall |-> t, tz |-> "utc"]

\* datetime.now(timezone.utc) + timedelta(seconds = s)
utc_plus(t, s) == [wall |-> t + s, tz |-> "utc"]

\* the instant a timestamptz parameter denotes: the driver reads a naive
\* datetime as local time, an aware one in its own zone
Timestamptz(dt) == IF dt.tz = "naive" THEN dt.wall - LocalUtcOffset ELSE dt.wall

\* the `state` query strings tried: the ids of both users and of no user,
\* padded and signed integers, and strings int() rejects
StateStrings ==
    {<<"1">>, <<"2">>, <<"3">>, <<" ", "1">>, <<"2", " ">>, <<"-", "1">>,
     <<>>, <<" ">>, <<"-">>, <<"x">>, <<"1", "x">>, <<"1", " ", "2">>, <<"-", " ", "1">>}

----------------------------------------------------------------------------
(* The spotify_credentials table *)

NoRow == [id |-> 0, user_id |-> 0, spotify_id |-> 0, access_token |-> 0,
          refresh_token |-> 0, token_expires_at |-> 0,
          liked_songs_sync_status |-> "none", liked_songs_count |-> 0]

RowsOf(tbl, uid) == {w \in tbl : w.user_id = uid}

\* the same query without its WHERE clause
FetchFirst(tbl, uid) ==
    IF tbl = {} THEN NoRow ELSE CHOOSE w \in tbl : \A v \in tbl : w.id <= v.id

\* fetch_one("SELECT * FROM spotify_credentials WHERE user_id = :user_id")
FetchOne(tbl, uid) ==
    IF RowsOf(tbl, uid) = {} THEN NoRow
    ELSE CHOOSE w \in RowsOf(tbl, uid) : \A v \in RowsOf(tbl, uid) : w.id <= v.id

\* the same query with WHERE id = :user_id
SelectIdByRowId(tbl, uid) ==
    IF {w \in tbl : w.id = uid} = {} THEN <<>> ELSE <<uid>>

\* execute("SELECT id FROM spotify_credentials WHERE user_id = :user_id")
SelectId(tbl, uid) ==
    IF RowsOf(tbl, uid) = {} THEN <<>> ELSE <<FetchOne(tbl, uid).id>>

\* users(id) is referenced by spotify_credentials.user_id
ForeignKeyOk(uid) == uid \in Users

\* a COALESCE that takes its second argument
CoalesceSecond(a, b) == b

\* COALESCE(a, b) with "none" for NULL
Coalesce(a, b) == IF a = "none" THEN b ELSE a

\* the status of the excluded row taken over on conflict
ConflictSyncStatusReset(old) == "not_started"

\* the CASE expression of the ON CONFLICT branch
ConflictSyncStatus(old) ==
    IF old = "completed" THEN "needs_update" ELSE Coalesce(old, "not_started")

\* a plain INSERT in place of the upsert
InsertOnly(tbl, id, uid, sid, at, rt, exp) ==
    tbl \cup {[id |-> id, user_id |-> uid, spotify_id |-> sid,
               access_token |-> at, refresh_token |-> rt, token_expires_at |-> exp,
               liked_songs_sync_status |-> "not_started", liked_songs_count |-> 0]}

\* INSERT ... ON CONFLICT (user_id) DO UPDATE SET ...
Upsert(tbl, id, uid, sid, at, rt, exp) ==
    IF RowsOf(tbl, uid) = {}
    THEN tbl \cup {[id |-> id, user_id |-> uid, spotify_id |-> sid,
                    access_token |-> at, refresh_token |-> rt,
                    token_expires_at |-> exp,
                    liked_songs_sync_status |-> "not_started",
                    liked_songs_count |-> 0]}
    ELSE {IF w.user_id = uid
          THEN [w EXCEPT !.spotify_id = sid, !.access_token = at,
                         !.refresh_token = rt, !.token_expires_at = exp,
                         !.liked_songs_sync_status = ConflictSyncStatus(@)]
          ELSE w : w \in tbl}

\* an UPDATE that sets the access token and leaves the other two columns
UpdateAccessTokenOnly(tbl, uid, at, rt, exp) ==
    {IF w.user_id = uid THEN [w EXCEPT !.access_token = at] ELSE w : w \in tbl}

\* UPDATE spotify_credentials SET access_token, refresh_token,
\* token_expires_at WHERE user_id = :user_id
UpdateTokens(tbl, uid, at, rt, exp) ==
    {IF w.user_id = uid
     THEN [w EXCEPT !.access_token = at, !.refresh_token = rt,
                    !.token_expires_at = exp]
     ELSE w : w \in tbl}

\* the same statement with WHERE id = :user_id
DeleteByRowId(tbl, uid) == tbl \ {w \in tbl : w.id = uid}

\* DELETE FROM spotify_credentials WHERE user_id = :user_id
DeleteRows(tbl, uid) == tbl \ RowsOf(tbl, uid)

----------------------------------------------------------------------------
(* The provider and the OAuth helper (spotipy.SpotifyOAuth) *)

NoToken == [access_token |-> 0, refresh_token |-> 0, expires_at |-> 0]

\* what the token endpoint can answer; refresh_token = 0: none in the answer
TokenFailure == [ok |-> FALSE, access_token |-> 0, refresh_token |-> 0, expires_in |-> 0]

ExchangeResponses ==
    {TokenFailure} \cup
    {[ok |-> TRUE, access_token |-> g, refresh_token |-> g, expires_in |-> e] :
        g \in Grants, e \in Lifetimes}

RefreshResponses ==
    {TokenFailure} \cup
    {[ok |-> TRUE, access_token |-> g, refresh_token |-> IF fresh THEN g ELSE 0,
      expires_in |-> e] : g \in Grants, fresh \in BOOLEAN, e \in Lifetimes}

\* the provider account an access token belongs to (sp.current_user()["id"])
AccountOf(at) == 10 * at

\* SpotifyOAuth.is_token_expired: less than 60 s (one clock unit) left
is_token_expired(ti, t) == ti.expires_at - t < 1

\* SpotifyOAuth._add_custom_values_to_token_info: expires_at = now + expires_in
add_custom_values(resp, t) ==
    [access_token |-> resp.access_token, refresh_token |-> resp.refresh_token,
     expires_at |-> t + resp.expires_in]

\* a refresh on a helper that looks into the module-level cache first
refresh_from_shared_cache(rt, resp, t) ==
    LET ti == add_custom_values(resp, t)
    IN  IF cache # NoToken THEN cache
        ELSE IF ti.refresh_token = 0 THEN [ti EXCEPT !.refresh_token = rt] ELSE ti

\* SpotifyOAuth.refresh_access_token(refresh_token): the token_info it returns
\* and saves to its cache handler; the old refresh token is kept when the
\* answer carries none
refresh_access_token(rt, resp, t) ==
    LET ti == add_custom_values(resp, t)
    IN  IF ti.refresh_token = 0 THEN [ti EXCEPT !.refresh_token = rt] ELSE ti

\* sp_oauth.get_access_token(code, as_dict=True) on the helper whose cache
\* handler holds `held`: a cached token is returned without any exchange of
\* `code` (refreshed first when expired); otherwise the code is exchanged and
\* the answer saved to the cache.  xr, rr: the provider's answers, if asked.
get_access_token(held, xr, rr, t) ==
    IF held # NoToken
    THEN IF is_token_expired(held, t)
         THEN IF rr.ok
              THEN LET ti == refresh_access_token(held.refresh_token, rr, t)
                   IN  [ok |-> TRUE, token_info |-> ti, cache |-> ti,
                        exchanges |-> 0, refreshes |-> 1]
              ELSE [ok |-> FALSE, token_info |-> NoToken, cache |-> held,
                    exchanges |-> 0, refreshes |-> 1]
         ELSE [ok |-> TRUE, token_info |-> held, cache |-> held,
               exchanges |-> 0, refreshes |-> 0]
    ELSE IF xr.ok
         THEN LET ti == add_custom_values(xr, t)
              IN  [ok |-> TRUE, token_info |-> ti, cache |-> ti,
                   exchanges |-> 1, refreshes |-> 0]
         ELSE [ok |-> FALSE, token_info |-> NoToken, cache |-> held,
               exchanges |-> 1, refreshes |-> 0]

----------------------------------------------------------------------------
(* Requests and responses *)

\* a request slot: pc is the await the handler is suspended at; the other
\* fields are the handler's locals and the provider calls it has made
Idle == [pc |-> "idle", kind |-> "none", user |-> 0, error |-> "none",
         token_expires_at |-> 0,
         token_info |-> NoToken, expires_at |-> 0, spotify_id |-> 0,
         exchanges |-> 0, refreshes |-> 0, reads |-> 0]

\* a new request is handled in the lowest free slot
FreeSlot(r) == req[r].pc = "idle" /\ \A k \in Reqs : k < r => req[k].pc # "idle"

\* what a request leaves behind when it answers: the response (status, detail
\* and body fields), the token_info and the client the handler worked with,
\* the provider calls the request made (code exchanges, refresh grants, API
\* reads), whether it scheduled the sync job, whether it printed an error,
\* the number of rows its last write statement affected, and the pages the
\* provider served to a playlist listing that completed
NoResp == [kind |-> "none", user |-> 0, status |-> 0, detail |-> "",
           url_state |-> <<>>, is_connected |-> FALSE, client |-> 0,
           token_info |-> NoToken, result |-> <<>>,
           exchanges |-> 0, refreshes |-> 0, reads |-> 0,
           job |-> FALSE, printed |-> FALSE, affected |-> 0, pages |-> <<>>]

Resp(kind, user, status, detail) ==
    [NoResp EXCEPT !.kind = kind, !.user = user, !.status = status,
                   !.detail = detail]

\* the response just produced has left: the event loop runs the next step
Ready == last = NoResp

----------------------------------------------------------------------------
(* The read-proxy endpoints, from the point get_spotify_client has returned *)

PlaylistIds == {1, 2}
PageCounts == {1, 2}

\* a page of sp.current_user_playlists: the ids of its items
Pages == {<<p>> : p \in PlaylistIds}

\* the provider's listing: pages linked by "next"; the last has next = None
PageChains == UNION {[1..n -> Pages] : n \in PageCounts}

\* the listing cut off after one page
FirstPageOnly(chain, i) == IF i > Len(chain) THEN <<>> ELSE chain[i]

\* results["items"] of the first page, extended by every page "next" leads to
RECURSIVE FollowNext(_, _)
FollowNext(chain, i) ==
    IF i > Len(chain) THEN <<>> ELSE chain[i] \o FollowNext(chain, i + 1)

\* the formatting of lines 257-270
RECURSIVE FormatPlaylists(_, _)
FormatPlaylists(playlists, imported_playlist_ids) ==
    IF playlists = <<>> THEN <<>>
    ELSE <<[id |-> Head(playlists),
            is_imported |-> Head(playlists) \in imported_playlist_ids]>>
         \o FormatPlaylists(Tail(playlists), imported_playlist_ids)

\* SELECT spotify_playlist_id FROM playlists WHERE user_id = :user_id
\* AND spotify_playlist_id IS NOT NULL (0 stands for NULL)
ImportedPlaylistIds(tbl, uid) ==
    {p.spotify_playlist_id : p \in {q \in tbl : q.user_id = uid /\ q.spotify_playlist_id # 0}}

\* items of the recently-played answer: the images of the track's album
TrackItems == {<<>>, <<[images |-> <<>>]>>, <<[images |-> <<7, 8>>]>>}

\* the reshaping of lines 290-304: album_art_url is the first image, or None (0)
RECURSIVE FormatTracks(_)
FormatTracks(items) ==
    IF items = <<>> THEN <<>>
    ELSE <<[album_art_url |-> IF Head(items).images # <<>>
                              THEN Head(items).images[1] ELSE 0]>>
         \o FormatTracks(Tail(items))

\* the body of get_recently_played_tracks, run with client sp
get_recently_played_tracks(r, q, sp, n) ==
    \E fails \in BOOLEAN, items \in TrackItems :
        /\ req' = [req EXCEPT ![r] = Idle]
        /\ last' = [Resp("recently_played", q.user,
                         IF fails THEN 500 ELSE 200,
                         IF fails THEN "Failed to fetch recently played tracks"
                         ELSE "recently_played")
                    EXCEPT !.client = sp, !.token_info = q.token_info,
                           !.refreshes = q.refreshes, !.reads = 1, !.affected = n,
                           !.result = IF fails THEN <<>> ELSE FormatTracks(items)]

\* the body of get_spotify_playlists, run with client sp: the pages are read
\* one after another, and a failing read raises, which the handler turns into
\* a 500.  Nothing in this module writes the playlists table, so the await of
\* its fetch_all commutes with every other step and is taken in the same one.
get_spotify_playlists(r, q, sp, n) ==
    \E chain \in PageChains, failing \in {0} \cup PageCounts :
        /\ req' = [req EXCEPT ![r] = Idle]
        /\ last' = IF failing \in 1..Len(chain)
                   THEN [Resp("playlists", q.user, 500, "failed to fetch spotify playlists")
                         EXCEPT !.client = sp, !.token_info = q.token_info,
                                !.refreshes = q.refreshes, !.reads = failing,
                                !.affected = n]
                   ELSE [Resp("playlists", q.user, 200, "playlists")
                         EXCEPT !.client = sp, !.token_info = q.token_info,
                                !.refreshes = q.refreshes, !.reads = Len(chain),
                                !.affected = n, !.pages = chain,
                                !.result = FormatPlaylists(FollowNext(chain, 1),
                                               ImportedPlaylistIds(playlists_tbl, q.user))]

\* the endpoint a read-proxy request is for; n: rows its refresh UPDATE affected
Endpoint(r, q, sp, n) ==
    IF q.kind = "playlists" THEN get_spotify_playlists(r, q, sp, n)
    ELSE get_recently_played_tracks(r, q, sp, n)

ProxyKinds == {"playlists", "recently_played"}

----------------------------------------------------------------------------
(* get_spotify_client, the dependency of both read-proxy endpoints *)

\* a refresh whose failure is answered with the stored token
refresh_failure_falls_back(r, q, spotify_creds, resp) ==
    IF resp.ok
    THEN /\ req' = [req EXCEPT ![r] =
                      [q EXCEPT !.pc = "update_tokens",
                                !.token_expires_at = spotify_creds.token_expires_at,
                                !.token_info = refresh_access_token(
                                    spotify_creds.refresh_token, resp, now),
                                !.expires_at = Timestamptz(
                                    utc_plus(now, resp.expires_in)),
                                !.refreshes = 1]]
         /\ last' = last
    ELSE Endpoint(r, [q EXCEPT !.refreshes = 1], spotify_creds.access_token, 0)

\* lines 79-87 and the values of lines 97-103, given the answer resp of the
\* token endpoint to the refresh grant: the helper user_oauth is built for
\* this call, so the module-level cache is neither read nor written
refresh_answered(r, q, spotify_creds, resp) ==
    IF resp.ok
    THEN /\ req' = [req EXCEPT ![r] =
                      [q EXCEPT !.pc = "update_tokens",
                                !.token_expires_at = spotify_creds.token_expires_at,
                                !.token_info = refresh_access_token(
                                    spotify_creds.refresh_token, resp, now),
                                !.expires_at = Timestamptz(
                                    utc_plus(now, resp.expires_in)),
                                !.refreshes = 1]]
         /\ last' = last
    ELSE /\ last' = [Resp(q.kind, q.user, 500, "Internal Server Error")
                     EXCEPT !.refreshes = 1]
         /\ req' = req

\* a get_spotify_client that refreshes whatever the stored expiry is
get_spotify_client_always_refreshing(r, u, kind) ==
    /\ Ready
    /\ FreeSlot(r)
    /\ LET spotify_creds == FetchOne(rows, u)
           q == [Idle EXCEPT !.kind = kind, !.user = u]
       IN  IF spotify_creds = NoRow
           THEN /\ last' = Resp(kind, u, 401, "spotify account not connected")
                /\ req' = req
           ELSE \E resp \in RefreshResponses :
                  refresh_answered(r, q, spotify_creds, resp)
    /\ UNCHANGED <<rows, next_id, cache, now, playlists_tbl>>

\* lines 67-87 and the values of lines 97-103, then the endpoint's body when
\* the stored token is still valid
get_spotify_client(r, u, kind) ==
    /\ Ready
    /\ FreeSlot(r)
    /\ LET spotify_creds == FetchOne(rows, u)
           q == [Idle EXCEPT !.kind = kind, !.user = u]
       IN  IF spotify_creds = NoRow
           THEN /\ last' = Resp(kind, u, 401, "spotify account not connected")
                /\ req' = req
           ELSE IF now >= spotify_creds.token_expires_at
           THEN \E resp \in RefreshResponses :
                  refresh_answered(r, q, spotify_creds, resp)
           ELSE Endpoint(r, q, spotify_creds.access_token, 0)
    /\ UNCHANGED <<rows, next_id, cache, now, playlists_tbl>>

\* an UPDATE that inserts the row it does not find
update_recreates(r, db_ok) ==
    IF db_ok
    THEN /\ rows' = IF RowsOf(rows, req[r].user) = {}
                    THEN Upsert(rows, next_id, req[r].user, AccountOf(req[r].user),
                                req[r].token_info.access_token,
                                req[r].token_info.refresh_token,
                                req[r].expires_at)
                    ELSE UpdateTokens(rows, req[r].user,
                                      req[r].token_info.access_token,
                                      req[r].token_info.refresh_token,
                                      req[r].expires_at)
         /\ Endpoint(r, req[r], req[r].token_info.access_token, 1)
    ELSE /\ rows' = rows
         /\ req' = [req EXCEPT ![r] = Idle]
         /\ last' = [Resp(req[r].kind, req[r].user, 500, "Internal Server Error")
                     EXCEPT !.token_info = req[r].token_info,
                            !.refreshes = req[r].refreshes]

\* the UPDATE of lines 88-104 executed by a database that does it (db_ok) or
\* raises: no try block surrounds it, so the request fails
update_executed(r, db_ok) ==
    IF db_ok
    THEN /\ rows' = UpdateTokens(rows, req[r].user,
                                 req[r].token_info.access_token,
                                 req[r].token_info.refresh_token,
                                 req[r].expires_at)
         /\ Endpoint(r, req[r], req[r].token_info.access_token,
                     Cardinality(RowsOf(rows, req[r].user)))
    ELSE /\ rows' = rows
         /\ req' = [req EXCEPT ![r] = Idle]
         /\ last' = [Resp(req[r].kind, req[r].user, 500, "Internal Server Error")
                     EXCEPT !.token_info = req[r].token_info,
                            !.refreshes = req[r].refreshes]

\* lines 88-105: the UPDATE, then the endpoint's body with the new token; a
\* persistence error is not caught
update_tokens(r) ==
    /\ Ready
    /\ req[r].pc = "update_tokens"
    /\ \E db_ok \in BOOLEAN : update_executed(r, db_ok)
    /\ UNCHANGED <<next_id, cache, now, playlists_tbl>>

----------------------------------------------------------------------------
(* The handlers of the authorization flow *)

\* `if error:` of line 141: None and the empty string are falsy
ErrorGiven(error) == error # "none" /\ error # ""

\* callbacks suspended at the upsert: each will draw an id from the sequence
PendingUpserts == Cardinality({r \in Reqs : req[r].pc = "upsert"})

\* GET /connect, lines 115-130
spotify_connect(u) ==
    /\ Ready
    /\ last' = IF Truthy(SelectId(rows, u))
               THEN Resp("connect", u, 400, "spotify already connected")
               ELSE [Resp("connect", u, 200, "url") EXCEPT !.url_state = Str(u)]
    /\ UNCHANGED <<rows, next_id, cache, now, playlists_tbl, req>>

\* a callback that goes on to the upsert whatever the provider answered
exchange_unchecked(r, user_id, error, resp, current_user_ok) ==
    LET got == get_access_token(cache, resp, resp, now)
    IN  /\ next_id + PendingUpserts \in SerialIds
        /\ cache' = got.cache
        /\ req' = [req EXCEPT ![r] =
                     [Idle EXCEPT
                        !.pc = "upsert", !.kind = "callback",
                        !.user = user_id, !.error = error,
                        !.token_info = got.token_info,
                        !.expires_at = Timestamptz(
                            fromtimestamp(got.token_info.expires_at)),
                        !.spotify_id = AccountOf(got.token_info.access_token),
                        !.exchanges = got.exchanges,
                        !.refreshes = got.refreshes,
                        !.reads = 1]]
        /\ last' = last

\* lines 150-161 and 205-207, given the answer resp of the token endpoint (if
\* the helper asks it) and whether sp.current_user() succeeds: an exception
\* of either call is caught at line 205 and turned into the error redirect
exchange_answered(r, user_id, error, resp, current_user_ok) ==
    LET got == get_access_token(cache, resp, resp, now)
    IN  /\ next_id + PendingUpserts \in SerialIds
        /\ cache' = got.cache
        /\ IF got.ok /\ current_user_ok
           THEN /\ req' = [req EXCEPT ![r] =
                             [Idle EXCEPT
                                !.pc = "upsert", !.kind = "callback",
                                !.user = user_id, !.error = error,
                                !.token_info = got.token_info,
                                !.expires_at = Timestamptz(
                                    fromtimestamp(got.token_info.expires_at)),
                                !.spotify_id = AccountOf(got.token_info.access_token),
                                !.exchanges = got.exchanges,
                                !.refreshes = got.refreshes,
                                !.reads = 1]]
                /\ last' = last
           ELSE /\ req' = req
                /\ last' = [Resp("callback", user_id, 307, "spotify_error")
                            EXCEPT !.exchanges = got.exchanges,
                                   !.refreshes = got.refreshes,
                                   !.reads = IF got.ok THEN 1 ELSE 0]

\* GET /callback, lines 133-161 and 205-207: up to the await of the upsert.
\* The exchange goes through the module-level helper sp_oauth and its cache.
spotify_callback(r, state, error) ==
    /\ Ready
    /\ FreeSlot(r)
    /\ IF ErrorGiven(error)
       THEN /\ last' = Resp("callback", 0, 400, "spotify auth error")
            /\ UNCHANGED <<cache, req>>
       ELSE IF ~IntParse(state).ok
       THEN /\ last' = Resp("callback", 0, 400, "invalid state parameter")
            /\ UNCHANGED <<cache, req>>
       ELSE \E resp \in (IF cache = NoToken THEN ExchangeResponses
                         ELSE IF is_token_expired(cache, now) THEN RefreshResponses
                         ELSE {TokenFailure}),
               current_user_ok \in BOOLEAN :
              exchange_answered(r, IntParse(state).val, error, resp, current_user_ok)
    /\ UNCHANGED <<rows, next_id, now, playlists_tbl>>

\* an upsert whose failure reaches the outer except: the error redirect,
\* with no sync job scheduled
upsert_unswallowed(r, db_ok) ==
    LET raised == ~db_ok \/ ~ForeignKeyOk(req[r].user)
    IN  /\ rows' = IF raised THEN rows
                   ELSE Upsert(rows, next_id, req[r].user, req[r].spotify_id,
                               req[r].token_info.access_token,
                               req[r].token_info.refresh_token,
                               req[r].expires_at)
        /\ last' = [Resp("callback", req[r].user, 307,
                         IF raised THEN "spotify_error" ELSE "spotify_connected=true")
                    EXCEPT !.client = req[r].token_info.access_token,
                           !.token_info = req[r].token_info,
                           !.exchanges = req[r].exchanges,
                           !.refreshes = req[r].refreshes,
                           !.reads = req[r].reads,
                           !.job = ~raised, !.printed = FALSE,
                           !.affected = IF raised THEN 0 ELSE 1]

\* lines 162-203 with the upsert executed by a database that does it (db_ok)
\* or raises: the exception is printed and dropped (lines 193-194), the sync
\* job is scheduled and the success redirect returned
upsert_executed(r, db_ok) ==
    LET raised == ~db_ok \/ ~ForeignKeyOk(req[r].user)
    IN  /\ rows' = IF raised THEN rows
                   ELSE Upsert(rows, next_id, req[r].user, req[r].spotify_id,
                               req[r].token_info.access_token,
                               req[r].token_info.refresh_token,
                               req[r].expires_at)
        /\ last' = [Resp("callback", req[r].user, 307, "spotify_connected=true")
                    EXCEPT !.client = req[r].token_info.access_token,
                           !.token_info = req[r].token_info,
                           !.exchanges = req[r].exchanges,
                           !.refreshes = req[r].refreshes,
                           !.reads = req[r].reads,
                           !.job = TRUE, !.printed = raised,
                           !.affected = IF raised THEN 0 ELSE 1]

\* lines 162-203: the upsert, whose failure is printed and dropped, the
\* scheduling of the sync job, the success redirect
callback_upsert(r) ==
    /\ Ready
    /\ req[r].pc = "upsert"
    /\ \E db_ok \in BOOLEAN : upsert_executed(r, db_ok)
    /\ next_id' = next_id + 1
    /\ req' = [req EXCEPT ![r] = Idle]
    /\ UNCHANGED <<cache, now, playlists_tbl>>

\* GET /status, lines 210-217
spotify_connection_status(u) ==
    /\ Ready
    /\ last' = [Resp("status", u, 200, "is_connected")
                EXCEPT !.is_connected = Truthy(SelectId(rows, u))]
    /\ UNCHANGED <<rows, next_id, cache, now, playlists_tbl, req>>

\* DELETE /disconnect, lines 220-227
spotify_disconnect(u) ==
    /\ Ready
    /\ rows' = DeleteRows(rows, u)
    /\ last' = [Resp("disconnect", u, 200, "spotify disconnected successfully")
                EXCEPT !.affected = Cardinality(RowsOf(rows, u))]
    /\ UNCHANGED <<next_id, cache, now, playlists_tbl, req>>

----------------------------------------------------------------------------
(* The sync job (liked_songs.sync_liked_songs_background), scheduled by the
   callback and run outside its request: it moves a user's sync status forward
   and writes the count of synced songs *)

SetSync(tbl, uid, st, n) ==
    {IF w.user_id = uid
     THEN [w EXCEPT !.liked_songs_sync_status = st, !.liked_songs_count = n]
     ELSE w : w \in tbl}

sync_begin(u) ==
    /\ Ready
    /\ FetchOne(rows, u).liked_songs_sync_status \in {"not_started", "needs_update"}
    /\ rows' = SetSync(rows, u, "in_progress", FetchOne(rows, u).liked_songs_count)
    /\ UNCHANGED <<next_id, cache, now, playlists_tbl, req, last>>

sync_end(u) ==
    /\ Ready
    /\ FetchOne(rows, u).liked_songs_sync_status = "in_progress"
    /\ \/ \E n \in SyncCounts : rows' = SetSync(rows, u, "completed", n)
       \/ rows' = SetSync(rows, u, "failed", FetchOne(rows, u).liked_songs_count)
    /\ UNCHANGED <<next_id, cache, now, playlists_tbl, req, last>>

\* time passes
Tick ==
    /\ Ready
    /\ now < MaxTime
    /\ now' = now + 1
    /\ UNCHANGED <<rows, next_id, cache, playlists_tbl, req, last>>

----------------------------------------------------------------------------
(* The system *)

Init ==
    /\ rows = {}
    /\ next_id = 1
    /\ cache = NoToken
    /\ now = 0
    /\ playlists_tbl = {[user_id |-> 1, spotify_playlist_id |-> 1],
                        [user_id |-> 1, spotify_playlist_id |-> 0],
                        [user_id |-> 2, spotify_playlist_id |-> 2]}
    /\ req = [r \in Reqs |-> Idle]
    /\ last = NoResp

\* the response just produced leaves before the event loop runs anything else
send_response ==
    /\ last # NoResp
    /\ last' = NoResp
    /\ UNCHANGED <<rows, next_id, cache, now, playlists_tbl, req>>

\* one stretch of one handler between two awaits, a step of the sync job, or
\* a tick;
\* S: the slots requests are handled in
Step(S) ==
    \/ \E u \in Users : spotify_connect(u)
    \/ \E r \in S, state \in StateStrings, error \in Errors :
          spotify_callback(r, state, error)
    \/ \E r \in S : callback_upsert(r)
    \/ \E u \in Users : spotify_connection_status(u)
    \/ \E u \in Users : spotify_disconnect(u)
    \/ \E r \in S, u \in Users, kind \in ProxyKinds : get_spotify_client(r, u, kind)
    \/ \E r \in S : update_tokens(r)
    \/ \E u \in Users : sync_begin(u)
    \/ \E u \in Users : sync_end(u)
    \/ Tick

\* at most one callback or read-proxy request in flight at a time, with any
\* number of connect, status and disconnect requests running in between
Next ==
    \/ Step({1})
    \/ send_response

\* callbacks and read-proxy requests overlapping as well
NextConcurrent ==
    \/ Step(Reqs)
    \/ send_response

\* read-proxy requests overlapping with each other and with disconnects
NextRace ==
    \/ \E r \in Reqs, u \in Users, kind \in ProxyKinds : get_spotify_client(r, u, kind)
    \/ \E r \in Reqs : update_tokens(r)
    \/ \E u \in Users : spotify_disconnect(u)
    \/ Tick
    \/ send_response

\* the process started anew over a table in which both users are linked, by
\* callbacks that took grant 1 and grant 2 of lifetime 1 at time 0
InitLinked ==
    /\ rows = {[id |-> u, user_id |-> u, spotify_id |-> AccountOf(u),
                access_token |-> u, refresh_token |-> u, token_expires_at |-> 1,
                liked_songs_sync_status |-> "not_started",
                liked_songs_count |-> 0] : u \in Users}
    /\ next_id = 3
    /\ cache = NoToken
    /\ now = 0
    /\ playlists_tbl = {[user_id |-> 1, spotify_playlist_id |-> 1],
                        [user_id |-> 1, spotify_playlist_id |-> 0],
                        [user_id |-> 2, spotify_playlist_id |-> 2]}
    /\ req = [r \in Reqs |-> Idle]
    /\ last = NoResp

\* the process started anew over a table that already holds user 1's row,
\* written by an earlier callback (id 1, grant 1 of lifetime 1 taken at time 0)
\* and since moved along by the sync job: the helper's cache is empty again,
\* the table and the id sequence are where they were
InitRelink ==
    /\ \E st \in SyncStatuses, n \in {0} \cup SyncCounts :
          /\ st = "not_started" => n = 0
          /\ rows = {[id |-> 1, user_id |-> 1, spotify_id |-> AccountOf(1),
                      access_token |-> 1, refresh_token |-> 1,
                      token_expires_at |-> 1,
                      liked_songs_sync_status |-> st, liked_songs_count |-> n]}
    /\ next_id = 2
    /\ cache = NoToken
    /\ now = 0
    /\ playlists_tbl = {[user_id |-> 1, spotify_playlist_id |-> 1],
                        [user_id |-> 1, spotify_playlist_id |-> 0],
                        [user_id |-> 2, spotify_playlist_id |-> 2]}
    /\ req = [r \in Reqs |-> Idle]
    /\ last = NoResp

Spec == Init /\ [][Next]_vars

SpecRelink == InitRelink /\ [][Next]_vars

SpecConcurrent == Init /\ [][NextConcurrent]_vars

SpecRace == InitLinked /\ [][NextRace]_vars

\* the event loop resumes a handler whose awaited statement has completed and
\* sends every response a handler has produced; that requests keep arriving
\* is not assumed
Scheduling ==
    /\ WF_vars(send_response)
    /\ \A r \in Reqs : WF_vars(callback_upsert(r)) /\ WF_vars(update_tokens(r))

SpecScheduled == Init /\ [][Next]_vars /\ Scheduling

----------------------------------------------------------------------------
(* Properties *)

\* the response being sent is the success redirect of a callback
CallbackSucceeded ==
    last.kind = "callback" /\ last.status = 307 /\ last.detail = "spotify_connected=true"

\* exactly one row for uid, holding the tokens and the expiry of ti
HoldsTokens(tbl, uid, ti) ==
    /\ Cardinality(RowsOf(tbl, uid)) = 1
    /\ \A w \in RowsOf(tbl, uid) :
          /\ w.access_token = ti.access_token
          /\ w.refresh_token = ti.refresh_token
          /\ w.token_expires_at = ti.expires_at

\* C1, as stated: whenever a callback answers with the success redirect, the
\* user int(state) has exactly one row and it holds the token_info obtained in
\* that callback.
C1_RowAfterEverySuccess ==
    CallbackSucceeded => HoldsTokens(rows, last.user, last.token_info)

\* C1, amended: no two rows ever share a user_id; and whenever a callback
\* answers with the success redirect and its upsert did not raise (nothing
\* was printed), the user has exactly one row, holding the token_info obtained
\* in that callback.
C1_RowAfterStoredSuccess ==
    /\ \A w, v \in rows : w.user_id = v.user_id => w = v
    /\ CallbackSucceeded /\ ~last.printed =>
          HoldsTokens(rows, last.user, last.token_info)

\* a repeated callback: the row it wrote to was inserted by an earlier one
C1_RelinkStored ==
    /\ CallbackSucceeded /\ ~last.printed
    /\ FetchOne(rows, last.user).id # next_id - 1

\* a read-proxy request answered in the step it arrived in
AnsweredAtOnce == last = NoResp /\ last'.kind \in ProxyKinds /\ req' = req

\* C2: get_spotify_client for a user with a row makes no refresh grant when
\* now < token_expires_at and exactly one when now >= token_expires_at, over
\* the whole request; the expiry it then persists is strictly greater than
\* the one it read.
C2_RefreshOnlyWhenExpired ==
    [][ /\ AnsweredAtOnce /\ RowsOf(rows, last'.user) # {} =>
              IF now < FetchOne(rows, last'.user).token_expires_at
              THEN last'.refreshes = 0 /\ last'.status \in {200, 500} /\ rows' = rows
              ELSE last'.refreshes = 1 /\ last'.status = 500 /\ last'.reads = 0
        /\ \A r \in Reqs :
              req[r].pc = "idle" /\ req'[r].pc = "update_tokens" =>
                 /\ RowsOf(rows, req'[r].user) # {}
                 /\ now >= FetchOne(rows, req'[r].user).token_expires_at
                 /\ req'[r].refreshes = 1
                 /\ req'[r].token_expires_at =
                       FetchOne(rows, req'[r].user).token_expires_at
        /\ \A r \in Reqs :
              req[r].pc = "update_tokens" /\ req'[r].pc # "update_tokens" =>
                 /\ last'.kind = req[r].kind /\ last'.user = req[r].user
                 /\ last'.refreshes = 1
                 /\ last'.affected > 0 =>
                       \A w \in RowsOf(rows', req[r].user) :
                          w.token_expires_at > req[r].token_expires_at
    ]_vars

\* a read-proxy request that refreshed and persisted the new tokens
C2_RefreshedAndPersisted ==
    /\ last.kind \in ProxyKinds /\ last.status = 200
    /\ last.refreshes = 1 /\ last.affected = 1

\* C3, as stated: the token cache a callback's exchange reads holds nothing
\* another request has written, that is, it is empty when the exchange begins.
C3_CacheScopedToRequest ==
    [][\A r \in Reqs, state \in StateStrings, error \in Errors :
          spotify_callback(r, state, error)
          /\ ~ErrorGiven(error) /\ IntParse(state).ok
          => cache = NoToken]_vars

\* C4: connect for a user with a row answers 400 without a url, whatever the
\* row's expiry; for a user without one it answers with a url whose state
\* reads back as the user's id; the table is unchanged either way.
C4_ConnectRefusedWhenLinked ==
    [][last = NoResp /\ last'.kind = "connect" =>
          /\ rows' = rows
          /\ IF RowsOf(rows, last'.user) # {}
             THEN last'.status = 400 /\ last'.url_state = <<>>
             ELSE /\ last'.status = 200
                  /\ last'.url_state = Str(last'.user)
                  /\ IntParse(last'.url_state) = [ok |-> TRUE, val |-> last'.user]
    ]_vars

\* connect refused for a user whose stored token has expired
C4_RefusedWithExpiredToken ==
    /\ last.kind = "connect" /\ last.status = 400
    /\ FetchOne(rows, last.user).token_expires_at <= now

\* C5: a read-proxy request of a user without a row is answered 401 at once,
\* having made no refresh grant and no API read; only a request that found a
\* row gets as far as the refresh UPDATE.
C5_NoRowNoProviderCall ==
    [][ /\ AnsweredAtOnce /\ RowsOf(rows, last'.user) = {} =>
              /\ last'.status = 401
              /\ last'.refreshes = 0 /\ last'.reads = 0 /\ last'.exchanges = 0
              /\ last'.client = 0 /\ rows' = rows
        /\ \A r \in Reqs :
              req[r].pc = "idle" /\ req'[r].pc = "update_tokens" =>
                 RowsOf(rows, req'[r].user) # {}
    ]_vars

\* a 401 for one user while another user's row is in the table
C5_UnlinkedUserRefused ==
    /\ last.kind \in ProxyKinds /\ last.status = 401
    /\ RowsOf(rows, last.user) = {} /\ rows # {}

\* C6: disconnect always answers 200 and leaves the user without a row and
\* every other user's rows alone, so a second disconnect finds the table as
\* the first left it; status changes nothing and reports whether the user
\* has a row, hence false in the state any disconnect leaves.
C6_DisconnectIdempotent ==
    [][ /\ last = NoResp /\ last'.kind = "disconnect" =>
              /\ last'.status = 200
              /\ RowsOf(rows', last'.user) = {}
              /\ rows' = {w \in rows : w.user_id # last'.user}
              /\ DeleteRows(rows', last'.user) = rows'
              /\ ~Truthy(SelectId(rows', last'.user))
        /\ last = NoResp /\ last'.kind = "status" =>
              /\ rows' = rows
              /\ last'.status = 200
              /\ last'.is_connected = (RowsOf(rows, last'.user) # {})
    ]_vars

\* a disconnect that deleted the user's row and left another user's row
C6_DisconnectedOneOfTwo ==
    /\ last.kind = "disconnect" /\ last.affected = 1
    /\ rows # {} /\ RowsOf(rows, last.user) = {}

\* s reads as an integer: spaces, then an optional minus sign and one or more
\* digits, then spaces
LooksLikeInt(s) ==
    \E i, j \in 1..Len(s) :
       /\ i <= j
       /\ \A k \in 1..Len(s) : (k < i \/ k > j) => s[k] = " "
       /\ LET b == IF s[i] = "-" THEN i + 1 ELSE i
          IN  b <= j /\ \A k \in b..j : IsDigit(s[k])

\* the state strings that do not read as an integer
NonIntStates == {s \in StateStrings : ~LooksLikeInt(s)}

\* the steps the first stretch of a callback is among (its first conjunct,
\* its responses and its UNCHANGED): no response is pending, the step answers
\* as a callback or not at all, the table, the id sequence and the clock stay
MayStartCallback ==
    /\ Ready /\ last'.kind \in {"callback", "none"}
    /\ UNCHANGED <<rows, next_id, now>>

\* C7: a callback whose state does not read as an integer is answered 400 in
\* the step it arrives in, with no exchange, no refresh and no API read, no
\* change to the table, the id sequence or the helper's cache, and no sync
\* job scheduled: a step is such a refusal, or no callback with such a state
\* can take it.
C7_BadStateRefusedBeforeNetwork ==
    [][MayStartCallback =>
          \/ /\ last'.kind = "callback" /\ last'.status = 400
             /\ last'.exchanges = 0 /\ last'.refreshes = 0 /\ last'.reads = 0
             /\ ~last'.job
             /\ cache' = cache /\ req' = req
          \/ \A r \in Reqs, state \in NonIntStates, error \in Errors :
                ~spotify_callback(r, state, error)
    ]_vars

\* a callback refused for its state while a user is linked
C7_BadStateRefused ==
    /\ last.kind = "callback" /\ last.status = 400
    /\ last.detail = "invalid state parameter"
    /\ rows # {}

\* C8, as stated: a callback that was given an error parameter (anything but
\* None) leaves the table as it was, in its first stretch and at its upsert.
C8_ErrorNeverTouchesStore ==
    [][ /\ \A r \in Reqs, state \in StateStrings, error \in Errors :
              error # "none" /\ spotify_callback(r, state, error) => rows' = rows
        /\ \A r \in Reqs :
              req[r].pc = "upsert" /\ req[r].error # "none" /\ req'[r].pc = "idle"
                 => rows' = rows
    ]_vars

\* C9, as stated: a callback that was given an error parameter is answered
\* with the error redirect, and every answer of a callback is a redirect with
\* spotify_connected=true or spotify_error.
C9_CallbackAlwaysRedirects ==
    [][ /\ \A r \in Reqs, state \in StateStrings :
              spotify_callback(r, state, "access_denied") =>
                 last'.status = 307 /\ last'.detail = "spotify_error"
        /\ last = NoResp /\ last'.kind = "callback" =>
              /\ last'.status = 307
              /\ last'.detail \in {"spotify_connected=true", "spotify_error"}
    ]_vars

\* C10: an upsert that did not raise leaves the user with one row holding
\* the callback's tokens and expiry; inserted, the row is not_started; on an
\* existing row the status becomes needs_update if it was completed and is
\* otherwise what it was, and id and liked_songs_count are what they were;
\* rows of other users are left alone. An upsert that raised changes nothing.
C10_UpsertSyncStatus ==
    [][\A r \in Reqs :
          req[r].pc = "upsert" /\ req'[r].pc = "idle" =>
             LET u == req[r].user
                 old == FetchOne(rows, u)
                 new == FetchOne(rows', u)
             IN  IF last'.printed THEN rows' = rows
                 ELSE /\ HoldsTokens(rows', u, [req[r].token_info EXCEPT
                                                  !.expires_at = req[r].expires_at])
                      /\ \A w \in rows : w.user_id # u => w \in rows'
                      /\ \A w \in rows' : w.user_id # u => w \in rows
                      /\ IF RowsOf(rows, u) = {}
                         THEN new.liked_songs_sync_status = "not_started"
                         ELSE /\ new.id = old.id
                              /\ new.liked_songs_count = old.liked_songs_count
                              /\ old.liked_songs_sync_status = "completed" =>
                                    new.liked_songs_sync_status = "needs_update"
                              /\ old.liked_songs_sync_status
                                    \in {"not_started", "in_progress",
                                         "needs_update", "failed"} =>
                                    new.liked_songs_sync_status =
                                       old.liked_songs_sync_status
    ]_vars

\* a callback stored new tokens in a row whose sync had failed after an
\* earlier one had counted a song: the row is still failed with count 1
C10_RelinkKeepsFailed ==
    /\ CallbackSucceeded /\ ~last.printed
    /\ FetchOne(rows, last.user).liked_songs_sync_status = "failed"
    /\ FetchOne(rows, last.user).liked_songs_count = 1
    /\ FetchOne(rows, last.user).access_token = 2

\* the number of items on the first n pages
RECURSIVE ItemsBefore(_, _)
ItemsBefore(pages, n) ==
    IF n = 0 THEN 0 ELSE ItemsBefore(pages, n - 1) + Len(pages[n])

C12_RefreshIsolated ==
    [][ /\ \A r \in Reqs :
              req[r].pc = "idle" /\ req'[r].pc = "update_tokens" =>
                 LET u == req'[r].user
                     creds == FetchOne(rows, u)
                     q == [Idle EXCEPT !.kind = req'[r].kind, !.user = u]
                 IN  /\ cache' = cache /\ rows' = rows
                     /\ \E resp \in RefreshResponses :
                           refresh_answered(r, q, creds, resp)
                     /\ \A resp \in RefreshResponses :
                           refresh_answered(r, q, creds, resp) =>
                              /\ resp.ok
                              /\ req'[r].token_info =
                                    [access_token |-> resp.access_token,
                                     refresh_token |->
                                        IF resp.refresh_token = 0
                                        THEN creds.refresh_token
                                        ELSE resp.refresh_token,
                                     expires_at |-> now + resp.expires_in]
        /\ \A r \in Reqs :
              req[r].pc = "update_tokens" /\ req'[r].pc = "idle" =>
                 /\ cache' = cache
                 /\ last'.status = 200 =>
                       /\ last'.client = req[r].token_info.access_token
                       /\ \A w \in rows' :
                             IF w.user_id = req[r].user
                             THEN /\ w.access_token = req[r].token_info.access_token
                                  /\ w.refresh_token = req[r].token_info.refresh_token
                             ELSE w \in rows
    ]_vars

\* a refresh was persisted and answered while the module-level cache held a
\* token with another access token, left there by a callback
C12_RefreshedBesideCachedToken ==
    /\ last.kind \in ProxyKinds /\ last.status = 200
    /\ last.refreshes = 1 /\ last.affected = 1
    /\ cache # NoToken /\ cache.access_token # last.client

\* C13: whenever the UPDATE of a refresh executes, also while another
\* refresh for the same user is in flight or has written since this one read
\* the row, the user's row afterwards holds the access token, the refresh
\* token and the expiry of this one call, so the row always shows the last
\* UPDATE whole; and the call answers with a client carrying the access token
\* of its own refresh.
C13_LastRefreshWriteWins ==
    [][\A r \in Reqs :
          req[r].pc = "update_tokens" /\ req'[r].pc = "idle" /\ last'.status # 500
          /\ rows' # rows =>
             /\ last'.client = req[r].token_info.access_token
             /\ last'.user = req[r].user /\ last'.refreshes = 1
             /\ \A w \in RowsOf(rows', req[r].user) :
                   /\ w.access_token = req[r].token_info.access_token
                   /\ w.refresh_token = req[r].token_info.refresh_token
                   /\ w.token_expires_at = req[r].expires_at
             /\ \A k \in Reqs \ {r} : req'[k] = req[k]
    ]_vars

\* of two refreshes for one user that read the same expired row, one has
\* written and answered; the other, holding different tokens, has yet to write
C13_FirstOfTwoWrote ==
    /\ last.kind \in ProxyKinds /\ last.status = 200
    /\ last.refreshes = 1 /\ last.affected = 1
    /\ \E r \in Reqs :
          /\ req[r].pc = "update_tokens" /\ req[r].user = last.user
          /\ req[r].token_info.access_token # last.client
          /\ req[r].token_expires_at # FetchOne(rows, last.user).token_expires_at

\* C14: a callback whose upsert the database fails still schedules the sync
\* job and answers with the success redirect, after one exchange at most and
\* with the table as it was; a read-proxy request whose refresh UPDATE the
\* database fails is answered 500, with no client, no API read and the table
\* as it was.
C14_UpsertErrorSwallowedOnly ==
    [][\A r \in Reqs :
          /\ req[r].pc = "upsert" /\ req'[r].pc = "idle"
             /\ upsert_executed(r, FALSE) =>
                /\ last'.kind = "callback" /\ last'.status = 307
                /\ last'.detail = "spotify_connected=true"
                /\ last'.job /\ last'.printed
                /\ rows' = rows
          /\ req[r].pc = "update_tokens" /\ req'[r].pc = "idle"
             /\ update_executed(r, FALSE) =>
                /\ last'.kind = req[r].kind /\ last'.status = 500
                /\ last'.client = 0 /\ last'.reads = 0 /\ last'.result = <<>>
                /\ rows' = rows
    ]_vars

\* the upsert of a known, linked user's repeated callback failed and the
\* callback answered with the success redirect all the same
C14_RelinkErrorSwallowed ==
    /\ CallbackSucceeded /\ last.printed /\ last.job
    /\ last.user \in Users /\ RowsOf(rows, last.user) # {}

\* the users a step's answer or a request it suspended is for
StepUsers == {last'.user} \cup {req'[k].user : k \in Reqs}

\* C15: a callback whose token call or whose fetch of the provider's user
\* fails answers with the redirect carrying spotify_error, having asked the
\* token endpoint once at most, changed neither the table nor the id sequence,
\* suspended no upsert and scheduled no job: a first stretch of a callback is
\* such an answer, or it is not the step of any failing call.
C15_ExchangeFailureRedirects ==
    [][MayStartCallback =>
          \/ /\ last'.kind = "callback" /\ last'.status = 307
             /\ last'.detail = "spotify_error"
             /\ last'.exchanges + last'.refreshes <= 1 /\ last'.reads <= 1
             /\ ~last'.job /\ ~last'.printed /\ last'.affected = 0
             /\ req' = req /\ rows' = rows /\ next_id' = next_id
          \/ \A r \in Reqs, u \in StepUsers, error \in Errors,
                resp \in ExchangeResponses \cup RefreshResponses,
                current_user_ok \in BOOLEAN :
                   ~get_access_token(cache, resp, resp, now).ok \/ ~current_user_ok
                      => ~exchange_answered(r, u, error, resp, current_user_ok)
    ]_vars

\* the exchange of a callback for a known user failed: one attempt, no read
C15_ExchangeFailed ==
    /\ last.kind = "callback" /\ last.detail = "spotify_error"
    /\ last.exchanges = 1 /\ last.reads = 0
    /\ last.user \in Users /\ rows = {}

\* C16: when the refresh grant of get_spotify_client fails, the request is
\* answered with status 500 after that one attempt, with no client, no read of
\* the provider and no result, nothing is left in flight and the table is as
\* it was, so the user's row keeps its tokens and its expiry.
C16_RefreshFailurePropagates ==
    [][Ready /\ last' # NoResp =>
          \A r \in Reqs :
             LET u == last'.user
                 spotify_creds == FetchOne(rows, u)
                 q == [Idle EXCEPT !.kind = last'.kind, !.user = u]
             IN  /\ FreeSlot(r)
                 /\ u \in Users /\ last'.kind \in ProxyKinds
                 /\ spotify_creds # NoRow
                 /\ now >= spotify_creds.token_expires_at
                 /\ refresh_answered(r, q, spotify_creds, TokenFailure)
                 => /\ last'.status = 500 /\ last'.status >= 500
                    /\ last'.refreshes = 1 /\ last'.exchanges = 0
                    /\ last'.client = 0 /\ last'.reads = 0
                    /\ last'.result = <<>> /\ last'.affected = 0
                    /\ req' = req /\ rows' = rows /\ cache' = cache
                    /\ FetchOne(rows', u) = spotify_creds
    ]_vars

\* a failed refresh has been answered and the user's row still holds the
\* expired token
C16_RefreshFailed ==
    /\ last.kind \in ProxyKinds /\ last.status = 500
    /\ last.refreshes = 1 /\ last.token_info = NoToken
    /\ last.user \in Users /\ FetchOne(rows, last.user) # NoRow
    /\ now >= FetchOne(rows, last.user).token_expires_at

\* C17: the callback goes past the validation of state only for the id of
\* a known user: no callback is suspended at the upsert for another id, no
\* answer to a callback for another id is the success redirect or has
\* scheduled the sync job, and no row is stored for another id.
C17_UnknownUserNeverLinked ==
    /\ \A r \in Reqs : req[r].pc = "upsert" => req[r].user \in Users
    /\ last.kind = "callback" /\ last.user \notin Users =>
          /\ last.detail # "spotify_connected=true"
          /\ ~last.job
    /\ \A w \in rows : w.user_id \in Users

\* the sync status of the user's row, "none" without a row
StatusOf(tbl, u) == FetchOne(tbl, u).liked_songs_sync_status

\* the moves of a sync status the specification allows: forward, and from
\* completed to needs_update
ForwardMoves ==
    {<<"not_started", "in_progress">>, <<"needs_update", "in_progress">>,
     <<"in_progress", "completed">>, <<"in_progress", "failed">>,
     <<"completed", "needs_update">>}

\* C18 as stated: once a user's sync status is in_progress, completed,
\* needs_update or failed, no sequence of operations brings it back to
\* not_started.
C18_NeverBackToNotStarted ==
    \A u \in Users :
       [](StatusOf(rows, u) \in {"in_progress", "completed", "needs_update", "failed"}
             => [](StatusOf(rows, u) # "not_started"))

\* C18 as the code has it: while a user's row exists its sync status stays or
\* makes one of the allowed moves, and the handlers of this subsystem make
\* only one of them, completed to needs_update, in the upsert of a callback
\* for that user; a row disappears only in a disconnect of that user and a row
\* appears only in the upsert of a callback for that user, with not_started,
\* whatever status a deleted row of the user had.
C18_ForwardWhileRowExists ==
    [][rows' # rows =>
          \A u \in Users :
             LET a == StatusOf(rows, u)
                 b == StatusOf(rows', u)
                 upserted == /\ last'.kind = "callback" /\ last'.user = u
                             /\ last'.affected = 1
                             /\ \E r \in Reqs : /\ req[r].pc = "upsert"
                                                /\ req[r].user = u
                                                /\ req'[r].pc = "idle"
             IN  /\ a # "none" /\ b # "none" /\ b # a =>
                       /\ <<a, b>> \in ForwardMoves
                       /\ last' # last \/ req' # req =>
                             a = "completed" /\ b = "needs_update" /\ upserted
                 /\ a = "none" /\ b # "none" => b = "not_started" /\ upserted
                 /\ a # "none" /\ b = "none" =>
                       /\ last'.kind = "disconnect" /\ last'.user = u
                       /\ last'.affected = 1
    ]_vars

\* a callback for a user whose sync had completed has demoted the status
C18_RelinkDemoted ==
    /\ CallbackSucceeded /\ last.affected = 1
    /\ last.user \in Users
    /\ StatusOf(rows, last.user) = "needs_update"

\* C19: a row for a user appears only in the upsert of a callback for that
\* user; when a disconnect has answered, the user has no row; and the UPDATE of
\* a refresh that finds no row of its user, the row having been deleted since
\* the request read it, changes nothing and affects zero rows, while the
\* request goes on with a client carrying the refreshed access token.
C19_RowOnlyFromUpsert ==
    [][ /\ \A w \in rows' :
              RowsOf(rows, w.user_id) = {} =>
                 /\ last'.kind = "callback" /\ last'.user = w.user_id
                 /\ \E r \in Reqs : /\ req[r].pc = "upsert"
                                    /\ req[r].user = w.user_id
                                    /\ req'[r].pc = "idle"
        /\ last'.kind = "disconnect" => RowsOf(rows', last'.user) = {}
        /\ \A r \in Reqs :
              /\ req[r].pc = "update_tokens" /\ req'[r].pc = "idle"
              /\ RowsOf(rows, req[r].user) = {}
              /\ update_executed(r, TRUE)
              => /\ rows' = rows
                 /\ last'.affected = 0
                 /\ last'.client = req[r].token_info.access_token
                 /\ last'.client # 0 /\ last'.reads >= 1
    ]_vars

\* a refresh wrote after a disconnect deleted the row it had read: the request
\* is answered with its result and the user has no row
C19_RefreshAfterDisconnect ==
    /\ last.kind \in ProxyKinds /\ last.status = 200
    /\ last.refreshes = 1 /\ last.affected = 0 /\ last.client # 0
    /\ RowsOf(rows, last.user) = {}

\* C20: a read-proxy request that finds now < token_expires_at in its
\* user's row starts no refresh and is answered in the same step by the
\* endpoint run with a client carrying the stored access token; the step
\* leaves every row of the table, and the module-level cache, as they were.
C20_ValidTokenReturnedUnwritten ==
    [][ /\ AnsweredAtOnce /\ RowsOf(rows, last'.user) # {}
           /\ now < FetchOne(rows, last'.user).token_expires_at =>
              /\ last'.client = FetchOne(rows, last'.user).access_token
              /\ last'.refreshes = 0 /\ last'.exchanges = 0
              /\ last'.affected = 0 /\ last'.reads >= 1
              /\ last'.token_info = NoToken
              /\ rows' = rows /\ cache' = cache /\ next_id' = next_id
        /\ \A r \in Reqs :
              req[r].pc = "idle" /\ req'[r].pc = "update_tokens" =>
                 now >= FetchOne(rows, req'[r].user).token_expires_at
    ]_vars

\* a read-proxy request was served with the stored token, which is still valid
C20_ServedWithStoredToken ==
    /\ last.kind \in ProxyKinds /\ last.status = 200
    /\ last.refreshes = 0 /\ last.client # 0
    /\ RowsOf(rows, last.user) # {}
    /\ last.client = FetchOne(rows, last.user).access_token
    /\ now < FetchOne(rows, last.user).token_expires_at

====
